---- MODULE Spec2Model ----
(***************************************************************************)
(* The task-dispatch loop of internal/agent_swarm/coordinator.py           *)
(* (AgentCoordinator) over the task_queue, agent_registry and              *)
(* agent_task_history tables, with the producer and reset scripts that     *)
(* write task_queue from outside the loop.                                 *)
(***************************************************************************)
EXTENDS Integers, Sequences, FiniteSets, TLC

VARIABLES
    tq,       \* task_queue: sequence of rows, task_id = index; created_at is
              \* kept as the row's rank in insertion order (DEFAULT NOW())
    reg,      \* agent_registry: agent_name -> [status, current_task_id]
    hist,     \* agent_task_history: sequence of entries (append only)
    conn,     \* self.conn: "ok", "aborted" (failed transaction), "closed"
    pc,       \* position of run(): "poll", "exec", "worker", "sleep", "exited";
              \* before run(): "import", "main", "init", "connect"
    batch,    \* tasks fetched by get_pending_tasks and not yet executed
    now,      \* value NOW() returns; it advances while a worker call is in flight
    faults,   \* store faults injected so far
    resets,   \* external writes to existing rows done so far
    last,     \* the latest finished execute_task call: its task, the worker's
              \* outcome, whether the delegation INSERT raised (read by the
              \* properties only)
    proc,     \* the process: environment keys set, API clients of the
              \* coordinator object, exit code and what ended the process
    ws,       \* one WebSocket connection of handle_websocket: messages
              \* received, frames sent, position of the handler
    templates \* task_templates: the module-level TEMPLATES and what the last
              \* call of format_template returned or raised

vars == <<tq, reg, hist, conn, pc, batch, now, faults, resets, last, proc, ws,
          templates>>

-----------------------------------------------------------------------------
(* Bounds of the model *)

MaxTasks == 2
MaxEvents == 2     \* store faults and external resets, together
MaxRows == 11
MaxChain == 3      \* rows of task_queue when only delegation inserts
MaxMsgs == 2       \* messages received on the WebSocket connection

(* LIMIT 10 of the fetch query *)
BatchLimit == 10

-----------------------------------------------------------------------------
(* Values *)

Null == "None"
NoTime == 0     \* a NULL timestamp column
NoTask == 0     \* a NULL task id (current_task_id, delegated_from)

KnownAgents == {"SOLACE", "FORGE", "ARCHITECT", "SENTINEL"}

\* the rows producers insert: (task_type, description, priority, status,
\* assigned_to_agent); the worker column is nullable
ProducerInputs ==
    {[task_type |-> "feature_implementation", description |-> "d1", priority |-> 8,
      status |-> "assigned", agent |-> "SOLACE"],
     [task_type |-> "ui_testing", description |-> "d2", priority |-> 5,
      status |-> "assigned", agent |-> Null],
     [task_type |-> "code_implementation", description |-> "d1", priority |-> 8,
      status |-> "pending", agent |-> Null]}

\* delegate_to values the model's JSON answer can carry: null, the empty
\* string, a worker, the coordinator itself, a name that is no worker
DelegateTargets == {Null, "", "FORGE", "SOLACE", "ORACLE"}

FaultKinds == {"ok", "stmt", "conn"}

NoResult == [agent |-> Null, decision |-> Null, delegate_to |-> Null, guidance |-> Null]
NoError == [msg |-> Null, arg |-> Null]
NoLast == [task_id |-> NoTask, agent |-> Null, response |-> Null, raised |-> FALSE,
           result |-> NoResult, error |-> NoError, insert_raised |-> FALSE]

Min(a, b) == IF a < b THEN a ELSE b

\* environment keys the start-up code reads
EnvKeys == {"OPENAI_API_KEY", "CLAUDE_API_KEY", "DB_HOST", "DB_PORT", "DB_NAME",
            "DB_USER", "DB_PASSWORD"}

NoExit == -1    \* the process is running

\* a process that has started with every key set: both clients built
Started == [env |-> EnvKeys, openai_client |-> TRUE, anthropic_client |-> TRUE,
            exit_code |-> NoExit, why |-> Null]

\* variant: main() logs the crash and returns
MainExitAlwaysZero(raised) == 0

\* main(): except Exception -> sys.exit(1); a normal return of run() ends
\* the process with code 0
MainExit(raised) == IF raised THEN 1 ELSE 0

Exited(p, code, why) == [p EXCEPT !.exit_code = code, !.why = why]

\* a connection just accepted: nothing received, nothing sent
\* rounds, calls, returned: of the chat being handled or handled last - the
\* iterations of handle_chat_message, its model calls, what it returned
NewSocket == [open |-> TRUE, received |-> <<>>, sent |-> <<>>, pos |-> "idle",
              rounds |-> 0, calls |-> 0, returned |-> Null]

-----------------------------------------------------------------------------
(* The psycopg2 connection (autocommit off).  A statement raises when the   *)
(* connection is closed, when the transaction is already aborted, or when   *)
(* the store fails it now (kind "stmt": the statement alone; kind "conn":   *)
(* the connection is lost).  A failed statement leaves the transaction      *)
(* aborted until rollback(); rollback() itself raises on a closed           *)
(* connection.                                                              *)

StmtFails(c, k) == c # "ok" \/ k # "ok"

ConnAfterFail(c, k) == IF c = "closed" \/ k = "conn" THEN "closed" ELSE "aborted"

\* the state a handler threads through its store calls; exc = an exception
\* is propagating out of the call just made; used = faults the store has
\* produced during the handler
Store(t, r, h, c) == [tq |-> t, reg |-> r, hist |-> h, conn |-> c, exc |-> FALSE, used |-> 0]

\* the handler state after a statement failed: the fault kind k took effect
\* only if the statement would otherwise have run
Failed(st, k) ==
    [st EXCEPT !.conn = ConnAfterFail(st.conn, k),
               !.used = IF st.conn = "ok" THEN st.used + 1 ELSE st.used]

\* except Exception: self.conn.rollback(); logger.error(...)
RollbackAndLog(st) ==
    IF st.conn = "closed"
    THEN [st EXCEPT !.exc = TRUE]
    ELSE [st EXCEPT !.conn = "ok", !.exc = FALSE]

-----------------------------------------------------------------------------
(* task_queue rows *)

NewRow(task_type, description, priority, status, agent, created_at, from, guidance) ==
    [task_type |-> task_type, description |-> description, priority |-> priority,
     status |-> status, assigned_to_agent |-> agent, created_at |-> created_at,
     started_at |-> NoTime, completed_at |-> NoTime, result |-> NoResult,
     error_log |-> NoError, retry_count |-> 0,
     delegated_from |-> from, guidance |-> guidance]

\* json.dumps(result) if result else '{}'
EmptyDoc == [agent |-> "", decision |-> "", delegate_to |-> "", guidance |-> ""]
StoredResult(result) == IF result = NoResult THEN EmptyDoc ELSE result

\* Python truthiness of a string-or-None value
Truthy(x) == x # Null /\ x # ""

-----------------------------------------------------------------------------
(* get_pending_tasks: WHERE status = 'assigned' ORDER BY priority DESC,    *)
(* created_at ASC LIMIT 10.  Rows equal in both keys come in any order.    *)

\* variants of the WHERE clause: failed tasks taken again; every task that
\* is not terminal taken
ClaimableOrFailed(table) ==
    {i \in 1..Len(table) : table[i].status \in {"assigned", "failed"}}

ClaimableNotTerminal(table) ==
    {i \in 1..Len(table) : table[i].status \notin {"completed", "failed"}}

\* variant: the fetch also takes the tasks left in_progress
ClaimableOrInProgress(table) ==
    {i \in 1..Len(table) : table[i].status \in {"assigned", "in_progress"}}

Claimable(table) == {i \in 1..Len(table) : table[i].status = "assigned"}

\* ORDER BY priority ASC in place of DESC
SortsBeforeAscending(table, i, j) ==
    \/ table[i].priority < table[j].priority
    \/ /\ table[i].priority = table[j].priority
       /\ table[i].created_at < table[j].created_at

\* row i sorts strictly before row j
SortsBefore(table, i, j) ==
    \/ table[i].priority > table[j].priority
    \/ /\ table[i].priority = table[j].priority
       /\ table[i].created_at < table[j].created_at

First(table, S) == {i \in S : \A j \in S : ~SortsBefore(table, j, i)}

RECURSIVE OrderedPrefixes(_, _, _)
OrderedPrefixes(table, S, n) ==
    IF n = 0 \/ S = {} THEN {<<>>}
    ELSE UNION {{<<i>> \o s : s \in OrderedPrefixes(table, S \ {i}, n - 1)} :
                i \in First(table, S)}

\* dict(task) of a fetched row
Fetched(table, i) ==
    [task_id |-> i, task_type |-> table[i].task_type, priority |-> table[i].priority,
     status |-> table[i].status, assigned_to_agent |-> table[i].assigned_to_agent,
     description |-> table[i].description, created_at |-> table[i].created_at]

\* the lists get_pending_tasks can return; on an exception it logs and
\* returns [] without rolling back
get_pending_tasks(table, c, k) ==
    IF StmtFails(c, k) THEN {<<>>}
    ELSE {[n \in 1..Len(s) |-> Fetched(table, s[n])] :
          s \in OrderedPrefixes(table, Claimable(table), BatchLimit)}

-----------------------------------------------------------------------------
(* Store updates of the coordinator *)

\* variant: the failed branch without the retry_count increment
StatusUpdateNoRetry(row, status, result, error, t) ==
    IF status = "in_progress"
    THEN [row EXCEPT !.status = status, !.started_at = t]
    ELSE IF status = "completed"
    THEN [row EXCEPT !.status = status, !.completed_at = t,
                     !.result = StoredResult(result)]
    ELSE IF status = "failed"
    THEN [row EXCEPT !.status = status, !.completed_at = t, !.error_log = error]
    ELSE row

\* variant: the failed branch without error_log
StatusUpdateDropsError(row, status, result, error, t) ==
    IF status = "in_progress"
    THEN [row EXCEPT !.status = status, !.started_at = t]
    ELSE IF status = "completed"
    THEN [row EXCEPT !.status = status, !.completed_at = t,
                     !.result = StoredResult(result)]
    ELSE IF status = "failed"
    THEN [row EXCEPT !.status = status, !.completed_at = t,
                     !.retry_count = row.retry_count + 1]
    ELSE row

\* the row after the UPDATE of update_task_status
\* variant: a task that ends is handed back (its worker column cleared)
StatusUpdateUnassigns(row, status, result, error, t) ==
    IF status = "in_progress"
    THEN [row EXCEPT !.status = status, !.started_at = t]
    ELSE IF status = "completed"
    THEN [row EXCEPT !.status = status, !.completed_at = t,
                     !.result = StoredResult(result), !.assigned_to_agent = Null]
    ELSE IF status = "failed"
    THEN [row EXCEPT !.status = status, !.completed_at = t, !.error_log = error,
                     !.retry_count = row.retry_count + 1, !.assigned_to_agent = Null]
    ELSE row

StatusUpdate(row, status, result, error, t) ==
    IF status = "in_progress"
    THEN [row EXCEPT !.status = status, !.started_at = t]
    ELSE IF status = "completed"
    THEN [row EXCEPT !.status = status, !.completed_at = t,
                     !.result = StoredResult(result)]
    ELSE IF status = "failed"
    THEN [row EXCEPT !.status = status, !.completed_at = t, !.error_log = error,
                     !.retry_count = row.retry_count + 1]
    ELSE row

update_task_status(st, task_id, status, result, error, t, k) ==
    IF StmtFails(st.conn, k)
    THEN RollbackAndLog(Failed(st, k))
    ELSE [st EXCEPT !.tq[task_id] = StatusUpdate(st.tq[task_id], status, result, error, t)]

\* UPDATE agent_registry ... WHERE agent_name = %s
update_agent_status(st, agent_name, status, task_id, k) ==
    IF StmtFails(st.conn, k)
    THEN RollbackAndLog(Failed(st, k))
    ELSE IF agent_name \in DOMAIN st.reg
    THEN [st EXCEPT !.reg[agent_name] = [status |-> status, current_task_id |-> task_id]]
    ELSE st

\* variant: one history row per task, replaced by a later execution
log_task_history_replacing(st, agent_name, task_id, task_type, success, error_msg, k) ==
    IF StmtFails(st.conn, k)
    THEN RollbackAndLog(Failed(st, k))
    ELSE [st EXCEPT !.hist = Append(SelectSeq(st.hist, LAMBDA e : e.task_id # task_id),
              [agent_name |-> agent_name, task_id |-> task_id, task_type |-> task_type,
               success |-> success, error_message |-> error_msg])]

\* INSERT INTO agent_task_history ...
log_task_history(st, agent_name, task_id, task_type, success, error_msg, k) ==
    IF StmtFails(st.conn, k)
    THEN RollbackAndLog(Failed(st, k))
    ELSE [st EXCEPT !.hist = Append(st.hist,
              [agent_name |-> agent_name, task_id |-> task_id, task_type |-> task_type,
               success |-> success, error_message |-> error_msg])]

\* variant: the delegated task inserted with the column default priority
insert_delegated_default_priority(st, task, result, k) ==
    IF StmtFails(st.conn, k)
    THEN [Failed(st, k) EXCEPT !.exc = TRUE]
    ELSE [st EXCEPT !.tq = Append(st.tq,
              NewRow(task.task_type, task.description, 5, "assigned",
                     result.delegate_to, Len(st.tq) + 1, task.task_id, result.guidance))]

\* the INSERT of the delegated task inside execute_task: no handler of its
\* own, so a failure leaves the transaction as it is and propagates
insert_delegated(st, task, result, k) ==
    IF StmtFails(st.conn, k)
    THEN [Failed(st, k) EXCEPT !.exc = TRUE]
    ELSE [st EXCEPT !.tq = Append(st.tq,
              NewRow(task.task_type, task.description, task.priority, "assigned",
                     result.delegate_to, Len(st.tq) + 1, task.task_id, result.guidance))]

-----------------------------------------------------------------------------
(* The workers.  Each call either returns a result document or raises; the *)
(* external API decides which, so both are inputs.                         *)

\* what an external API can do in one call: answer as expected, answer with
\* text that is not JSON, with JSON that is not an object, with an object
\* that lacks the expected keys, with an HTTP status other than 200, or not
\* answer at all
ApiResponses == {"ok", "not_json", "not_object", "wrong_shape", "http_status",
                 "transport_error"}

\* the answers every run of the loop is checked with
CommonResponses == {"ok", "not_json", "transport_error"}

\* response = what the external API did in this call (Null: no call made)
Returned(response, r) ==
    [response |-> response, raised |-> FALSE, result |-> r, error |-> NoError]
Raised(response, msg, arg) ==
    [response |-> response, raised |-> TRUE, result |-> NoResult,
     error |-> [msg |-> msg, arg |-> arg]]

\* json.loads of the answer, or the "handle" fallback when it is not JSON;
\* result['tokens_used'] = ... raises on JSON that is not an object, and an
\* object without 'decision' is returned as it is
execute_with_solace(task) ==
    IF ~proc.openai_client
    THEN {Raised(Null, "OpenAI client not initialized", Null)}
    ELSE {Returned("not_json", [agent |-> Null, decision |-> "handle", delegate_to |-> Null,
                                guidance |-> "Processed by SOLACE"])}
         \cup {Returned("ok", [agent |-> Null, decision |-> "delegate", delegate_to |-> d,
                               guidance |-> "g1"]) : d \in DelegateTargets}
         \cup {Returned("wrong_shape", [agent |-> Null, decision |-> Null,
                                        delegate_to |-> Null, guidance |-> Null])}
         \cup {Raised("transport_error", "OpenAI transport error", Null),
               Raised("http_status", "OpenAI status error", "500"),
               Raised("not_object", "TypeError", Null)}

\* the text of the answer is taken as it is; message.content[0] raises on
\* an answer without content
execute_with_forge(task) ==
    IF ~proc.anthropic_client
    THEN {Raised(Null, "Anthropic client not initialized", Null)}
    ELSE {Returned("ok", [agent |-> "FORGE", decision |-> Null, delegate_to |-> Null,
                          guidance |-> Null]),
          Raised("transport_error", "Anthropic transport error", Null),
          Raised("http_status", "Anthropic status error", "500"),
          Raised("wrong_shape", "IndexError", Null)}

\* variant: the status code of the answer is not looked at
execute_with_architect_any_status(task) ==
    {Returned(k, [agent |-> "ARCHITECT", decision |-> Null, delegate_to |-> Null,
                  guidance |-> Null]) : k \in {"ok", "wrong_shape", "http_status"}}
    \cup {Raised("transport_error", "Ollama transport error", Null),
          Raised("not_json", "JSON decode error", Null)}

\* requests.post raises; status_code != 200 raises; resp.json() raises on a
\* body that is not JSON; result.get('response', '') accepts an object
\* without the key
execute_with_architect(task) ==
    {Returned(k, [agent |-> "ARCHITECT", decision |-> Null, delegate_to |-> Null,
                  guidance |-> Null]) : k \in {"ok", "wrong_shape"}}
    \cup {Raised("transport_error", "Ollama transport error", Null),
          Raised("http_status", "Ollama error", "500"),
          Raised("not_json", "JSON decode error", Null)}

execute_with_sentinel(task) ==
    {Returned(k, [agent |-> "SENTINEL", decision |-> Null, delegate_to |-> Null,
                  guidance |-> Null]) : k \in {"ok", "wrong_shape"}}
    \cup {Raised("transport_error", "Ollama transport error", Null),
          Raised("http_status", "Ollama error", "500"),
          Raised("not_json", "JSON decode error", Null)}

\* variant: the chain ends in a default worker instead of the raise
RouteDefaultsToSolace(task) ==
    LET agent_name == task.assigned_to_agent IN
    IF agent_name = "FORGE" THEN execute_with_forge(task)
    ELSE IF agent_name = "ARCHITECT" THEN execute_with_architect(task)
    ELSE IF agent_name = "SENTINEL" THEN execute_with_sentinel(task)
    ELSE execute_with_solace(task)

\* the if/elif chain of execute_task
Route(task) ==
    LET agent_name == task.assigned_to_agent IN
    IF agent_name = "SOLACE" THEN execute_with_solace(task)
    ELSE IF agent_name = "FORGE" THEN execute_with_forge(task)
    ELSE IF agent_name = "ARCHITECT" THEN execute_with_architect(task)
    ELSE IF agent_name = "SENTINEL" THEN execute_with_sentinel(task)
    ELSE {Raised(Null, "Unknown agent", agent_name)}

\* variant: "if delegate_to is not None"
DelegatesNonNull(task, result) ==
    /\ task.assigned_to_agent = "SOLACE"
    /\ result.decision = "delegate"
    /\ result.delegate_to # Null

\* if agent_name == 'SOLACE' and result.get('decision') == 'delegate': ... if delegate_to:
Delegates(task, result) ==
    /\ task.assigned_to_agent = "SOLACE"
    /\ result.decision = "delegate"
    /\ Truthy(result.delegate_to)

-----------------------------------------------------------------------------
(* Store faults: one kind per store statement of a handler *)

RECURSIVE FaultVectors(_, _, _)
FaultVectors(n, FK, b) ==
    IF n = 0 THEN {<<>>}
    ELSE UNION {{Append(f, k) : f \in FaultVectors(n - 1, FK, IF k = "ok" THEN b ELSE b - 1)} :
                k \in {x \in FK : x = "ok" \/ b > 0}}

Injected(f) == Cardinality({i \in DOMAIN f : f[i] # "ok"})

\* str(e) of a store exception
StoreError == [msg |-> "store error", arg |-> Null]

-----------------------------------------------------------------------------
(* execute_task *)

\* lines 744-757: mark the task in_progress and the worker busy
ExecuteBegin(st, task, t, f) ==
    LET a == update_task_status(st, task.task_id, "in_progress", NoResult, NoError, t, f[1])
    IN  IF a.exc THEN a
        ELSE update_agent_status(a, task.assigned_to_agent, "busy", task.task_id, f[2])

\* variant: the except branch without the idle update
ExecuteExceptLeavesBusy(st, task, error, t, f) ==
    LET a == update_task_status([st EXCEPT !.exc = FALSE], task.task_id, "failed",
                                NoResult, error, t, f[2])
    IN  IF a.exc THEN a
        ELSE log_task_history(a, task.assigned_to_agent, task.task_id, task.task_type,
                              FALSE, error, f[4])

\* variant: the except branch re-raises after its bookkeeping
ExecuteExceptReraises(st, task, error, t, f) ==
    LET a == update_task_status([st EXCEPT !.exc = FALSE], task.task_id, "failed",
                                NoResult, error, t, f[2])
        b == update_agent_status(a, task.assigned_to_agent, "idle", NoTask, f[3])
        c == log_task_history(b, task.assigned_to_agent, task.task_id, task.task_type,
                              FALSE, error, f[4])
    IN  [c EXCEPT !.exc = TRUE]

\* lines 798-805: the except branch.  It runs after the worker raised, or
\* after the INSERT (statement 1) raised, or on a closed connection, so its
\* three statements are statements 2 to 4 of the call
ExecuteExcept(st, task, error, t, f) ==
    LET a == update_task_status([st EXCEPT !.exc = FALSE], task.task_id, "failed",
                                NoResult, error, t, f[2])
        b == IF a.exc THEN a
             ELSE update_agent_status(a, task.assigned_to_agent, "idle", NoTask, f[3])
    IN  IF b.exc THEN b
        ELSE log_task_history(b, task.assigned_to_agent, task.task_id, task.task_type,
                              FALSE, error, f[4])

\* variant: the try block without the idle update
ExecuteTryLeavesBusy(st, task, result, t, f) ==
    LET a == IF Delegates(task, result)
             THEN insert_delegated(st, task, result, f[1]) ELSE st
        b == IF a.exc THEN a
             ELSE update_task_status(a, task.task_id, "completed", result, NoError, t, f[2])
    IN  IF b.exc THEN b
        ELSE log_task_history(b, task.assigned_to_agent, task.task_id, task.task_type,
                              TRUE, NoError, f[4])

\* lines 774-796: the rest of the try block once the worker has returned
ExecuteTry(st, task, result, t, f) ==
    LET a == IF Delegates(task, result)
             THEN insert_delegated(st, task, result, f[1]) ELSE st
        b == IF a.exc THEN a
             ELSE update_task_status(a, task.task_id, "completed", result, NoError, t, f[2])
        c == IF b.exc THEN b
             ELSE update_agent_status(b, task.assigned_to_agent, "idle", NoTask, f[3])
    IN  IF c.exc THEN c
        ELSE log_task_history(c, task.assigned_to_agent, task.task_id, task.task_type,
                              TRUE, NoError, f[4])

\* variant: the completion written in a finally block
ExecuteFinishAlwaysCompletes(st, task, o, t, f) ==
    LET a == ExecuteTry(st, task, o.result, t, f)
    IN  IF a.exc THEN ExecuteExcept(a, task, StoreError, t, f) ELSE a

\* lines 759-805: the worker's outcome o, then the try block or the except branch
ExecuteFinish(st, task, o, t, f) ==
    IF o.raised THEN ExecuteExcept(st, task, o.error, t, f)
    ELSE LET a == ExecuteTry(st, task, o.result, t, f)
         IN  IF a.exc THEN ExecuteExcept(a, task, StoreError, t, f) ELSE a

\* variant: the loop takes the fetched tasks from the end of the list
NextTaskFromEnd(tasks) == tasks[Len(tasks)]

\* for task in tasks: the first task not yet executed
NextTask(tasks) == Head(tasks)

\* variant: the rest of the loop runs over a fresh fetch
RestOfBatchRefetched(tasks, table) ==
    CHOOSE b \in get_pending_tasks(table, "ok", "ok") : TRUE

\* for task in tasks: the list fetched by get_pending_tasks, whatever the
\* table holds by now
RestOfBatch(tasks, table) == Tail(tasks)

-----------------------------------------------------------------------------
(* task_templates *)

\* a Python dict with no key
EmptyDict == [k \in {} |-> TRUE]

\* d.update(u): the keys of u are set in d, the other keys of d are kept
DictUpdate(d, u) ==
    [k \in DOMAIN d \cup DOMAIN u |-> IF k \in DOMAIN u THEN u[k] ELSE d[k]]

\* The module-level TEMPLATES dict as the module's load leaves it.  A
\* description is kept as the set of the {placeholders} of its text.
TEMPLATES ==
    [code_quality_zero_tolerance |->
        [task_type   |-> "code_refactoring",
         priority    |-> 10,
         description |-> {"file_count", "warning_count", "error_count",
                          "duration"},
         context     |-> [strict_mode |-> TRUE, max_warnings |-> 0,
                          max_errors |-> 0, testing_required |-> TRUE]],
     ui_fix |->
        [task_type   |-> "ui_building",
         priority    |-> 8,
         description |-> {"component_name", "issues", "duration"},
         context     |-> [framework |-> "react", testing_required |-> TRUE]],
     bug_fix |->
        [task_type   |-> "debugging",
         priority    |-> 9,
         description |-> {"bug_title", "bug_description",
                          "reproduction_steps", "expected", "actual",
                          "duration"},
         context     |-> [severity |-> "high", testing_required |-> TRUE]],
     feature_implementation |->
        [task_type   |-> "feature_development",
         priority    |-> 7,
         description |-> {"feature_name", "requirements", "tech_specs",
                          "acceptance_criteria", "duration"},
         context     |-> [testing_required |-> TRUE,
                          documentation_required |-> TRUE]]]

\* every placeholder of every description
Placeholders == UNION {TEMPLATES[n].description : n \in DOMAIN TEMPLATES}

\* description.format(**kwargs): the text with each placeholder replaced by
\* the keyword argument of its name; keyword arguments the text does not name
\* are ignored
Format(description, kwargs) == [k \in description |-> kwargs[k]]

\* format_template(template_name, **kwargs), on the module-level dict T:
\* what becomes of T, and what the call returns or raises.
\*   - an unknown name raises ValueError before anything is touched;
\*   - template = TEMPLATES[name].copy() copies the outer dict only: the
\*     copy's 'context' is the very dict TEMPLATES[name]['context'];
\*   - str.format raises KeyError for a placeholder with no keyword argument,
\*     before the context is looked at;
\*   - template['context'].update(kwargs['context']) therefore updates the
\*     context held by TEMPLATES;
\*   - 'file_paths' is a new key of the copy alone.
format_template(T, template_name, kwargs) ==
    IF template_name \notin DOMAIN T
    THEN [TEMPLATES |-> T, outcome |-> "ValueError", template |-> EmptyDict]
    ELSE IF ~(T[template_name].description \subseteq DOMAIN kwargs)
    THEN [TEMPLATES |-> T, outcome |-> "KeyError", template |-> EmptyDict]
    ELSE
      LET context == IF "context" \in DOMAIN kwargs
                     THEN DictUpdate(T[template_name].context, kwargs["context"])
                     ELSE T[template_name].context
          copy == [T[template_name] EXCEPT
                      !.description = Format(@, kwargs),
                      !.context = context]
      IN  [TEMPLATES |-> [T EXCEPT ![template_name].context = context],
           outcome   |-> "returned",
           template  |-> IF "file_paths" \in DOMAIN kwargs
                         THEN copy @@ ("file_paths" :> kwargs["file_paths"])
                         ELSE copy]

\* the module after its load, before any call
NoCall == [template_name |-> Null, keywords |-> {}, outcome |-> "none",
           template |-> EmptyDict]
Loaded == [TEMPLATES |-> TEMPLATES, call |-> NoCall]

-----------------------------------------------------------------------------
(* State *)

Init ==
    /\ tq = <<>>
    /\ reg = [a \in KnownAgents |-> [status |-> "idle", current_task_id |-> NoTask]]
    /\ hist = <<>>
    /\ conn = "ok"
    /\ pc = "poll"
    /\ batch = <<>>
    /\ now = 1
    /\ faults = 0
    /\ resets = 0
    /\ last = NoLast
    /\ proc = Started
    /\ ws = NewSocket
    /\ templates = Loaded

\* an exception leaves run(): except Exception logs it, finally close_db()
Leave(st) ==
    /\ tq' = st.tq /\ reg' = st.reg /\ hist' = st.hist
    /\ conn' = IF st.exc THEN "closed" ELSE st.conn
    /\ proc' = IF st.exc THEN Exited(proc, MainExit(FALSE), "loop") ELSE proc

-----------------------------------------------------------------------------
(* run(): one action per step of the loop.  FK = the fault kinds the store *)
(* can produce.                                                            *)

\* tasks = self.get_pending_tasks(); if tasks: ... else: ...
Poll(FK) ==
    /\ pc = "poll"
    /\ \E f \in FaultVectors(1, FK, MaxEvents - faults - resets) :
       \E tasks \in get_pending_tasks(tq, conn, f[1]) :
          /\ batch' = tasks
          /\ conn' = IF StmtFails(conn, f[1]) THEN ConnAfterFail(conn, f[1]) ELSE conn
          /\ pc' = IF tasks # <<>> THEN "exec" ELSE "sleep"
          /\ faults' = IF conn = "ok" THEN faults + Injected(f) ELSE faults
    /\ UNCHANGED <<tq, reg, hist, now, resets, last, proc, ws, templates>>

\* for task in tasks: self.execute_task(task), up to the call of the worker
Begin(FK) ==
    /\ pc = "exec"
    /\ \E f \in FaultVectors(2, FK, MaxEvents - faults - resets) :
       LET st == ExecuteBegin(Store(tq, reg, hist, conn), NextTask(batch), now, f) IN
          /\ Leave(st)
          /\ pc' = IF st.exc THEN "exited" ELSE "worker"
          /\ faults' = faults + st.used
    /\ UNCHANGED <<batch, now, resets, last, ws, templates>>

\* the worker returns or raises, and execute_task runs to its end.  K = the
\* answers the external APIs give, cap = the rows the table can hold
FinishWithin(FK, K, cap) ==
    /\ pc = "worker"
    /\ \E o \in {x \in Route(NextTask(batch)) : x.response \in K \cup {Null}} :
       \E f \in FaultVectors(4, FK, MaxEvents - faults - resets) :
       LET task == NextTask(batch)
           st == ExecuteFinish(Store(tq, reg, hist, conn), task, o, now, f) IN
          /\ ~o.raised /\ Delegates(task, o.result) => Len(tq) < cap
          /\ Leave(st)
          /\ batch' = RestOfBatch(batch, st.tq)
          /\ pc' = IF st.exc THEN "exited"
                   ELSE IF RestOfBatch(batch, st.tq) # <<>> THEN "exec" ELSE "sleep"
          /\ faults' = faults + st.used
          /\ last' = [task_id |-> task.task_id, agent |-> task.assigned_to_agent,
                      response |-> o.response,
                      raised |-> o.raised, result |-> o.result, error |-> o.error,
                      insert_raised |-> /\ ~o.raised
                                        /\ Delegates(task, o.result)
                                        /\ StmtFails(conn, f[1])]
    /\ now' = now + 1
    /\ UNCHANGED <<resets, ws, templates>>

Finish(FK, K) == FinishWithin(FK, K, MaxTasks)

\* time.sleep(interval)
Sleep ==
    /\ pc = "sleep"
    /\ pc' = "poll"
    /\ UNCHANGED <<tq, reg, hist, conn, batch, now, faults, resets, last, proc, ws, templates>>

-----------------------------------------------------------------------------
(* Writers of task_queue outside the loop *)

\* a producer script inserts a task: status and worker are the producer's
\* (create_collaboration_test.py) or the column defaults (create_task.py)
ProducerInsert ==
    /\ Len(tq) < MaxTasks
    /\ \E p \in ProducerInputs :
          tq' = Append(tq, NewRow(p.task_type, p.description, p.priority, p.status, p.agent,
                                  Len(tq) + 1, NoTask, Null))
    /\ UNCHANGED <<reg, hist, conn, pc, batch, now, faults, resets, last, proc, ws, templates>>

\* variant: the reset without "AND status = 'failed'"
ResetRowAnyStatus(row) ==
    [row EXCEPT !.status = "assigned", !.assigned_to_agent = "FORGE"]

\* reset_task.py: UPDATE ... SET status='assigned', assigned_to_agent='FORGE'
\*                WHERE task_id = ... AND status = 'failed'
ResetRow(row) ==
    IF row.status = "failed"
    THEN [row EXCEPT !.status = "assigned", !.assigned_to_agent = "FORGE"]
    ELSE row

ResetTask ==
    /\ faults + resets < MaxEvents
    /\ \E i \in 1..Len(tq) :
          /\ tq' = [tq EXCEPT ![i] = ResetRow(tq[i])]
          /\ resets' = IF tq'[i] # tq[i] THEN resets + 1 ELSE resets
    /\ UNCHANGED <<reg, hist, conn, pc, batch, now, faults, last, proc, ws, templates>>

-----------------------------------------------------------------------------
(* Specifications *)

\* the loop and the outside writers; the store may fail any statement
Next ==
    \/ Poll(FaultKinds)
    \/ Begin(FaultKinds)
    \/ Finish(FaultKinds, CommonResponses)
    \/ Sleep
    \/ ProducerInsert
    \/ ResetTask

Spec == Init /\ [][Next]_vars

\* the same with a store that executes every statement
HealthyNext ==
    \/ Poll({"ok"})
    \/ Begin({"ok"})
    \/ Finish({"ok"}, CommonResponses)
    \/ Sleep
    \/ ProducerInsert
    \/ ResetTask

HealthySpec == Init /\ [][HealthyNext]_vars

TypeOK ==
    /\ pc \in {"import", "main", "init", "connect", "poll", "exec", "worker", "sleep",
              "exited"}
    /\ proc.env \subseteq EnvKeys
    /\ proc.exit_code \in {NoExit, 0, 1}
    /\ (pc = "exited") = (proc.exit_code # NoExit)
    /\ conn \in {"ok", "aborted", "closed"}
    /\ Len(tq) <= MaxTasks \/ Len(tq) <= MaxChain
    /\ faults \in 0..MaxEvents
    /\ resets \in 0..MaxEvents
    /\ faults + resets <= MaxEvents
    /\ pc \in {"exec", "worker"} => batch # <<>>

\* run() is one thread that is never blocked for good: time.sleep returns, the
\* store answers or raises, and the worker call returns or raises
LoopNext ==
    \/ Poll(FaultKinds)
    \/ Begin(FaultKinds)
    \/ Finish(FaultKinds, CommonResponses)
    \/ Sleep

FairSpec == Spec /\ WF_vars(LoopNext)

-----------------------------------------------------------------------------
(* get_pending_tasks alone, on tables large enough for LIMIT 10 to cut:    *)
(* up to MaxRows rows of either priority, at most one of them not          *)
(* claimable, with creation times that repeat and that run against the     *)
(* insertion order.                                                        *)

FetchCreated(i) == (i * 5) % 9

FetchAddRow ==
    /\ pc = "poll"
    /\ Len(tq) < MaxRows
    /\ \E priority \in {5, 8}, status \in {"assigned", "completed"} :
          /\ status = "assigned" \/ \A i \in 1..Len(tq) : tq[i].status = "assigned"
          /\ tq' = Append(tq, NewRow("ui_testing", "d2", priority, status, "FORGE",
                                     FetchCreated(Len(tq) + 1), NoTask, Null))
    /\ UNCHANGED <<reg, hist, conn, pc, batch, now, faults, resets, last, proc, ws, templates>>

FetchNext ==
    \/ FetchAddRow
    \/ Poll({"ok"})

FetchSpec == Init /\ [][FetchNext]_vars

-----------------------------------------------------------------------------
(* update_task_status called for a task that is already completed or       *)
(* failed (a second attempt on the task), next to the running loop.        *)

Terminal == {"completed", "failed"}

SecondAttempt ==
    /\ faults + resets < MaxEvents
    /\ conn = "ok"
    /\ \E i \in 1..Len(tq), status \in {"in_progress", "completed", "failed"} :
          /\ tq[i].status \in Terminal
          /\ tq' = update_task_status(Store(tq, reg, hist, conn), i, status,
                                      NoResult, NoError, now, "ok").tq
    /\ resets' = resets + 1
    /\ UNCHANGED <<reg, hist, conn, pc, batch, now, faults, last, proc, ws, templates>>

\* the loop over a store that executes every statement, and the second attempt
AttemptNext == HealthyNext \/ SecondAttempt

AttemptSpec == Init /\ [][AttemptNext]_vars

-----------------------------------------------------------------------------
(* The loop with tasks assigned to every worker and every answer the       *)
(* external APIs can give.                                                 *)

\* a producer assigns the task to a worker itself
\* (create_ui_validation_task.py: 'SENTINEL')
WorkerInsert ==
    /\ Len(tq) < MaxTasks
    /\ \E a \in KnownAgents :
          tq' = Append(tq, NewRow("ui_testing", "d2", 10, "assigned", a,
                                  Len(tq) + 1, NoTask, Null))
    /\ UNCHANGED <<reg, hist, conn, pc, batch, now, faults, resets, last, proc, ws, templates>>

WorkerNext ==
    \/ Poll({"ok"})
    \/ Begin({"ok"})
    \/ Finish({"ok"}, ApiResponses)
    \/ Sleep
    \/ WorkerInsert

WorkerSpec == Init /\ [][WorkerNext]_vars

-----------------------------------------------------------------------------
(* The process from its launch: the import-time check of the environment,  *)
(* main() up to run(), the loop, and the stop signal.                      *)

\* required_keys, checked when the module is loaded
RequiredKeys == {"OPENAI_API_KEY", "CLAUDE_API_KEY", "DB_HOST", "DB_USER", "DB_PASSWORD",
                 "DB_NAME"}

\* validate_env.py
REQUIRED_VARS == {"DB_HOST", "DB_PORT", "DB_NAME", "DB_USER", "DB_PASSWORD",
                  "OPENAI_API_KEY"}

\* a process launched with the keys of env set
Launched(env) == [env |-> env, openai_client |-> FALSE, anthropic_client |-> FALSE,
                  exit_code |-> NoExit, why |-> Null]

StartInit ==
    /\ tq = <<>>
    /\ reg = [a \in KnownAgents |-> [status |-> "idle", current_task_id |-> NoTask]]
    /\ hist = <<>>
    /\ conn = "closed"
    /\ pc = "import"
    /\ batch = <<>>
    /\ now = 1
    /\ faults = 0
    /\ resets = 0
    /\ last = NoLast
    /\ proc \in {Launched(env) : env \in SUBSET EnvKeys}
    /\ ws = NewSocket
    /\ templates = Loaded

\* if missing_keys: sys.exit(1); then the signal handler is registered
ImportCheck ==
    /\ pc = "import"
    /\ IF RequiredKeys \subseteq proc.env
       THEN pc' = "main" /\ proc' = proc
       ELSE pc' = "exited" /\ proc' = Exited(proc, 1, "import")
    /\ UNCHANGED <<tq, reg, hist, conn, batch, now, faults, resets, last, ws, templates>>

\* main(): validate_env.validate_environment() exits with 1 on a missing
\* variable; an ImportError of validate_env is logged and skipped
ValidateEnv ==
    /\ pc = "main"
    /\ \E found \in BOOLEAN :
          IF found /\ ~(REQUIRED_VARS \subseteq proc.env)
          THEN pc' = "exited" /\ proc' = Exited(proc, 1, "validate")
          ELSE pc' = "init" /\ proc' = proc
    /\ UNCHANGED <<tq, reg, hist, conn, batch, now, faults, resets, last, ws, templates>>

\* AgentCoordinator(db_config): a client for each key that is set
Construct ==
    /\ pc = "init"
    /\ proc' = [proc EXCEPT !.openai_client = "OPENAI_API_KEY" \in proc.env,
                            !.anthropic_client = "CLAUDE_API_KEY" \in proc.env]
    /\ pc' = "connect"
    /\ UNCHANGED <<tq, reg, hist, conn, batch, now, faults, resets, last, ws, templates>>

\* run(): self.connect_db() before the try; its exception reaches main()
ConnectDb ==
    /\ pc = "connect"
    /\ \E connected \in BOOLEAN :
          IF connected
          THEN conn' = "ok" /\ pc' = "poll" /\ proc' = proc
          ELSE conn' = "closed" /\ pc' = "exited"
               /\ proc' = Exited(proc, MainExit(TRUE), "connect")
    /\ UNCHANGED <<tq, reg, hist, batch, now, faults, resets, last, ws, templates>>

\* SIGINT once the handler is registered: signal_handler calls sys.exit(0),
\* and the SystemExit passes every except Exception on its way out; the
\* list of fetched tasks goes with the process
StopSignal ==
    /\ pc \in {"main", "init", "connect", "poll", "exec", "worker", "sleep"}
    /\ pc' = "exited"
    /\ conn' = "closed"
    /\ proc' = Exited(proc, 0, "signal")
    /\ batch' = <<>>
    /\ UNCHANGED <<tq, reg, hist, now, faults, resets, last, ws, templates>>

StartNext ==
    \/ ImportCheck
    \/ ValidateEnv
    \/ Construct
    \/ ConnectDb
    \/ StopSignal
    \/ Poll({"ok"})
    \/ Begin({"ok"})
    \/ Finish({"ok"}, CommonResponses)
    \/ Sleep
    \/ ProducerInsert

StartSpec == StartInit /\ [][StartNext]_vars

\* the operator launches the process again, with the same environment: a
\* new coordinator object, no connection, no batch; the tables are the store's
Restart ==
    /\ pc = "exited"
    /\ pc' = "import"
    /\ proc' = Launched(proc.env)
    /\ conn' = "closed"
    /\ batch' = <<>>
    /\ UNCHANGED <<tq, reg, hist, now, faults, resets, last, ws, templates>>

RestartNext == StartNext \/ Restart

RestartSpec == StartInit /\ [][RestartNext]_vars

-----------------------------------------------------------------------------
(* The loop on a table filled before it starts, with no producer and no    *)
(* reset afterwards: only delegation inserts tasks.                        *)

\* the tables a producer can have left: one or two of its rows
InitialTables ==
    {<<NewRow(p.task_type, p.description, p.priority, p.status, p.agent,
              1, NoTask, Null)>> : p \in ProducerInputs}
    \cup {<<NewRow(p.task_type, p.description, p.priority, p.status, p.agent,
                   1, NoTask, Null),
            NewRow(q.task_type, q.description, q.priority, q.status, q.agent,
                   2, NoTask, Null)>> : p \in ProducerInputs, q \in ProducerInputs}

ChainInit ==
    /\ tq \in InitialTables
    /\ reg = [a \in KnownAgents |-> [status |-> "idle", current_task_id |-> NoTask]]
    /\ hist = <<>>
    /\ conn = "ok"
    /\ pc = "poll"
    /\ batch = <<>>
    /\ now = 1
    /\ faults = 0
    /\ resets = 0
    /\ last = NoLast
    /\ proc = Started
    /\ ws = NewSocket
    /\ templates = Loaded

ChainNext ==
    \/ Poll({"ok"})
    \/ Begin({"ok"})
    \/ FinishWithin({"ok"}, CommonResponses, MaxChain)
    \/ Sleep

ChainSpec == ChainInit /\ [][ChainNext]_vars

-----------------------------------------------------------------------------
(* handle_websocket on one connection.  A message is the text received:    *)
(* json = whether it parses and to what, type = its 'type', data = what    *)
(* its 'data' leads to in the branch of that type.                         *)

MessageTypes == {"ping", "read_file", "write_file", "list_directory", "chat",
                 "get_architecture", "create_backup", "restore_backup",
                 "execute_command"}

\* "ok": the fields are there and the operation works; "missing_field": a
\* field the branch reads is absent; "not_found": the operation raises
\* FileNotFoundError; "raises": it raises another exception
DataKinds == {"ok", "missing_field", "not_found", "raises"}

WsMessages ==
    {[json |-> j, type |-> Null, data |-> "ok"] : j \in {"invalid", "not_object"}}
    \cup {[json |-> "object", type |-> t, data |-> "ok"] : t \in {Null, "bogus"}}
    \cup {[json |-> "object", type |-> t, data |-> d] : t \in MessageTypes, d \in DataKinds}

TypedReply(t) ==
    CASE t = "ping" -> "pong"
      [] t = "read_file" -> "file_content"
      [] t = "write_file" -> "write_success"
      [] t = "list_directory" -> "directory_listing"
      [] t = "chat" -> "chat_response"
      [] t = "get_architecture" -> "architecture_rules"
      [] t = "create_backup" -> "backup_created"
      [] t = "restore_backup" -> "restore_complete"
      [] t = "execute_command" -> "command_output"

\* the branches that answer 'Missing ...' when a field is absent; the other
\* branches read their fields with a default
ChecksFields == {"read_file", "write_file", "create_backup", "restore_backup",
                 "execute_command"}

\* the branches whose operation can raise into handle_websocket:
\* query_architecture_rules catches its exceptions, ping calls nothing, and
\* for chat it is user_message[:50] on a message that is not a string
CanRaise == MessageTypes \ {"ping", "get_architecture"}

\* the message goes to handle_chat_message
IsChat(m) == m.json = "object" /\ m.type = "chat" /\ m.data \in {"ok", "missing_field"}

\* variant: an unknown type is logged and not answered
RespondSilentOnUnknown(m) ==
    IF m.json = "invalid" THEN <<"error">>
    ELSE IF m.json = "not_object" THEN <<"error">>
    ELSE IF m.type \notin MessageTypes THEN <<>>
    ELSE IF m.data = "missing_field" /\ m.type \in ChecksFields THEN <<"error">>
    ELSE IF m.data \in {"not_found", "raises"} /\ m.type \in CanRaise THEN <<"error">>
    ELSE <<TypedReply(m.type)>>

\* the frames handle_websocket sends for a message it answers itself: the
\* response of the branch, or the error frame of the except clause entered
Respond(m) ==
    IF m.json = "invalid" THEN <<"error">>
    ELSE IF m.json = "not_object" THEN <<"error">>
    ELSE IF m.type \notin MessageTypes THEN <<"error">>
    ELSE IF m.data = "missing_field" /\ m.type \in ChecksFields THEN <<"error">>
    ELSE IF m.data \in {"not_found", "raises"} /\ m.type \in CanRaise THEN <<"error">>
    ELSE <<TypedReply(m.type)>>

max_iterations == 5

Frames(types, n) == [k \in 1..Len(types) |-> [type |-> types[k], for |-> n]]

\* async for message in websocket: the next message is taken
WsReceive ==
    /\ ws.open
    /\ ws.pos = "idle"
    /\ Len(ws.received) < MaxMsgs
    /\ \E m \in WsMessages :
          ws' = [ws EXCEPT !.received = Append(@, m), !.pos = "handling", !.rounds = 0,
                           !.calls = 0, !.returned = Null]
    /\ UNCHANGED <<tq, reg, hist, conn, pc, batch, now, faults, resets, last, proc, templates>>

\* every message but a chat: one branch, one websocket.send
WsReply ==
    /\ ws.open
    /\ ws.pos = "handling"
    /\ LET n == Len(ws.received)
           m == ws.received[n]
       IN  /\ ~IsChat(m)
           /\ ws' = [ws EXCEPT !.sent = @ \o Frames(Respond(m), n), !.pos = "idle"]
    /\ UNCHANGED <<tq, reg, hist, conn, pc, batch, now, faults, resets, last, proc, templates>>

\* variant: the loop without its iteration limit (while True)
ChatIterationUnlimited(p, iteration) ==
    IF "OPENAI_API_KEY" \notin p.env
    THEN {[call |-> FALSE, status |-> 0, returns |-> "error"]}
    ELSE {[call |-> TRUE, status |-> n, returns |-> Null] : n \in 1..2}
         \cup {[call |-> TRUE, status |-> 0, returns |-> "final_text"]}
         \cup {[call |-> TRUE, status |-> n, returns |-> "error"] : n \in 0..1}

\* handle_chat_message after `iteration` iterations of its loop: without the
\* key it returns an error text at once; after max_iterations it returns the
\* 'Maximum iterations reached' text; else it calls the model, which asks for
\* tool calls (a status frame each, then the next iteration), answers with
\* text (returned), or the call or a tool call's arguments raise ('Error: ...'
\* returned, perhaps after a status frame)
ChatIteration(p, iteration) ==
    IF "OPENAI_API_KEY" \notin p.env
    THEN {[call |-> FALSE, status |-> 0, returns |-> "error"]}
    ELSE IF iteration = max_iterations
    THEN {[call |-> FALSE, status |-> 0, returns |-> "max_iterations"]}
    ELSE {[call |-> TRUE, status |-> n, returns |-> Null] : n \in 1..2}
         \cup {[call |-> TRUE, status |-> 0, returns |-> "final_text"]}
         \cup {[call |-> TRUE, status |-> n, returns |-> "error"] : n \in 0..1}

\* a chat message: one iteration of handle_chat_message, and the
\* chat_response of handle_websocket once it has returned
WsChatRound ==
    /\ ws.open
    /\ ws.pos = "handling"
    /\ LET n == Len(ws.received)
           m == ws.received[n]
       IN  /\ IsChat(m)
           /\ \E o \in ChatIteration(proc, ws.rounds) :
                 LET status == Frames([k \in 1..o.status |-> "status"], n)
                     calls == IF o.call THEN ws.calls + 1 ELSE ws.calls
                 IN  IF o.returns = Null
                     THEN ws' = [ws EXCEPT !.sent = @ \o status, !.rounds = @ + 1,
                                           !.calls = calls]
                     ELSE ws' = [ws EXCEPT
                                   !.sent = (@ \o status) \o
                                            <<[type |-> "chat_response", for |-> n]>>,
                                   !.calls = calls, !.returned = o.returns,
                                   !.pos = "idle"]
    /\ UNCHANGED <<tq, reg, hist, conn, pc, batch, now, faults, resets, last, proc, templates>>

\* the peer closes the connection: the iteration ends, and a send raises
\* ConnectionClosed, which ends the handler
WsPeerClose ==
    /\ ws.open
    /\ ws' = [ws EXCEPT !.open = FALSE]
    /\ UNCHANGED <<tq, reg, hist, conn, pc, batch, now, faults, resets, last, proc, templates>>

WsNext ==
    \/ WsReceive
    \/ WsReply
    \/ WsChatRound
    \/ WsPeerClose

WsSpec == Init /\ [][WsNext]_vars

-----------------------------------------------------------------------------
(* Callers of task_templates.format_template *)

TemplateNames == DOMAIN TEMPLATES \cup {"performance_fix"}

\* the context= keyword arguments callers pass: none of its keys, an
\* override of a key the templates have, a key of the caller's own
ContextArgs ==
    {EmptyDict, [testing_required |-> FALSE], [reviewer |-> "SENTINEL"]}

\* the keyword arguments of one call: a text for each of the given
\* placeholders, and context= and file_paths= when given
Kwargs(given, contexts, paths) ==
    LET texts == [k \in given |-> "text"]
        c == IF contexts = {} THEN EmptyDict
             ELSE "context" :> (CHOOSE x \in contexts : TRUE)
        f == IF paths = {} THEN EmptyDict
             ELSE "file_paths" :> (CHOOSE x \in paths : TRUE)
    IN  texts @@ c @@ f

\* one call of format_template by any code that imported the module
FormatTemplate ==
    \E template_name \in TemplateNames :
    \E given \in {Placeholders, Placeholders \ {"duration"}} :
    \E contexts \in {{}} \cup {{x} : x \in ContextArgs} :
    \E paths \in {{}, {<<"internal/agent_swarm/coordinator.py">>}} :
      LET kwargs == Kwargs(given, contexts, paths)
          r == format_template(templates.TEMPLATES, template_name, kwargs)
      IN  /\ templates' =
                [TEMPLATES |-> r.TEMPLATES,
                 call |-> [template_name |-> template_name,
                           keywords |-> DOMAIN kwargs,
                           outcome |-> r.outcome,
                           template |-> r.template]]
          /\ UNCHANGED <<tq, reg, hist, conn, pc, batch, now, faults, resets,
                         last, proc, ws>>

TemplateSpec == Init /\ [][FormatTemplate]_vars

-----------------------------------------------------------------------------
(* Properties *)

BatchIds == {batch[k].task_id : k \in 1..Len(batch)}

\* C1: the list get_pending_tasks returns holds min(10, n) distinct tasks out
\* of the n tasks whose status is 'assigned'; in it a higher priority comes
\* before a lower one and, at equal priority, an earlier created_at before a
\* later one; and no assigned task left out has a higher priority than a
\* returned one, or the same priority and an earlier created_at.
C1_FetchOrder ==
    pc \in {"exec", "sleep"} =>
        /\ Len(batch) = Min(BatchLimit, Cardinality(Claimable(tq)))
        /\ Cardinality(BatchIds) = Len(batch)
        /\ \A k \in 1..Len(batch) : /\ batch[k].task_id \in 1..Len(tq)
                                    /\ tq[batch[k].task_id].status = "assigned"
        /\ \A j, k \in 1..Len(batch) :
              j < k => /\ batch[j].priority >= batch[k].priority
                       /\ batch[j].priority = batch[k].priority
                            => batch[j].created_at <= batch[k].created_at
        /\ \A x \in 1..Len(tq) : \A k \in 1..Len(batch) :
              (tq[x].status = "assigned" /\ x \notin BatchIds)
                 => /\ tq[x].priority <= batch[k].priority
                    /\ tq[x].priority = batch[k].priority
                         => tq[x].created_at >= batch[k].created_at

\* a fetch that LIMIT 10 cut: an assigned task is left out, both priorities
\* are in the list and the list does not follow the insertion order
C1_Witness ==
    /\ pc = "exec"
    /\ Len(batch) = BatchLimit
    /\ Cardinality(Claimable(tq)) > BatchLimit
    /\ batch[1].priority > batch[BatchLimit].priority
    /\ batch[1].task_id > batch[2].task_id

\* a step of the loop (every step of run() moves pc; outside writers do not)
LoopStep == pc' # pc

\* the step in which the worker call ends and execute_task runs to its end
FinishStep == pc = "worker" /\ pc' # "worker"

AllIdle == \A a \in DOMAIN reg : reg[a] = [status |-> "idle", current_task_id |-> NoTask]

\* C2: no step takes a task from assigned straight to completed or failed,
\* and in every state a task with completed_at set has started_at set
\* (store updates may fail and be rolled back).
C2_ViaInProgress ==
    [][\A i \in 1..Len(tq') :
          /\ (i <= Len(tq) /\ tq[i].status = "assigned")
                => tq'[i].status \notin Terminal
          /\ tq'[i].completed_at # NoTime => tq'[i].started_at # NoTime]_vars

\* the execution that ended in this step inserted exactly one row, assigned
\* to the worker named by delegate_to
InsertedForTarget ==
    /\ Len(tq') = Len(tq) + 1
    /\ tq'[Len(tq')].status = "assigned"
    /\ tq'[Len(tq')].assigned_to_agent = last'.result.delegate_to

\* C3 as claimed: an execution inserts exactly one task, assigned to the
\* target, if and only if the worker is SOLACE and its result has
\* decision = 'delegate' with a non-null delegate_to; otherwise it inserts none.
C3_Original ==
    [][FinishStep =>
         /\ Len(tq') \in {Len(tq), Len(tq) + 1}
         /\ InsertedForTarget <=> /\ last'.agent = "SOLACE"
                                  /\ ~last'.raised
                                  /\ last'.result.decision = "delegate"
                                  /\ last'.result.delegate_to # Null]_vars

\* C3 amended: ... if and only if the worker is SOLACE, its result has
\* decision = 'delegate' with a delegate_to that is neither null nor the
\* empty string, and the store executes the INSERT; otherwise it inserts none.
C3_Delegation ==
    [][FinishStep =>
         /\ Len(tq') \in {Len(tq), Len(tq) + 1}
         /\ InsertedForTarget <=> /\ last'.agent = "SOLACE"
                                  /\ ~last'.raised
                                  /\ last'.result.decision = "delegate"
                                  /\ last'.result.delegate_to # Null
                                  /\ last'.result.delegate_to # ""
                                  /\ ~last'.insert_raised]_vars

\* a delegated task is in the table, and the latest execution was a
\* delegate answer without a target, which inserted nothing
C3_Witness ==
    /\ \E j \in 1..Len(tq) : tq[j].delegated_from # NoTask
    /\ last.result.decision = "delegate"
    /\ last.result.delegate_to = ""

\* C4: when SOLACE returns a delegate decision with a target, the execution
\* inserts a task with the original task's description, task_type and
\* priority, status assigned, the target as worker, delegated_from = the
\* original task id and the guidance string; and the original task ends
\* completed with SOLACE's response as its result.
C4_DelegatedTask ==
    [][(/\ FinishStep
        /\ last'.agent = "SOLACE"
        /\ ~last'.raised
        /\ last'.result.decision = "delegate"
        /\ Truthy(last'.result.delegate_to))
       => LET orig == last'.task_id
              new == tq'[Len(tq')]
          IN  /\ Len(tq') = Len(tq) + 1
              /\ new.description = tq[orig].description
              /\ new.task_type = tq[orig].task_type
              /\ new.priority = tq[orig].priority
              /\ new.status = "assigned"
              /\ new.assigned_to_agent = last'.result.delegate_to
              /\ new.delegated_from = orig
              /\ new.guidance = last'.result.guidance
              /\ tq'[orig].status = "completed"
              /\ tq'[orig].result = last'.result
              /\ tq'[orig].assigned_to_agent = "SOLACE"]_vars

\* the original task is completed with the delegate answer and its
\* follow-on task is in the table
C4_Witness ==
    \E i, j \in 1..Len(tq) :
        /\ tq[j].delegated_from = i
        /\ tq[i].status = "completed"
        /\ tq[i].result.decision = "delegate"
        /\ tq[j].assigned_to_agent = "FORGE"

\* C5: while the worker call of a task is in flight, the registration of the
\* task's worker is busy with current_task_id = the task; at every other
\* point of the loop (right after an execution, success or failure, and
\* between poll cycles) every registration is idle with no current task.
C5_WorkerState ==
    /\ pc = "worker" =>
          LET task == Head(batch) IN
          \A a \in DOMAIN reg :
              reg[a] = IF a = task.assigned_to_agent
                       THEN [status |-> "busy", current_task_id |-> task.task_id]
                       ELSE [status |-> "idle", current_task_id |-> NoTask]
    /\ pc # "worker" => AllIdle

\* an execution by a registered worker has just failed and the next task of
\* the batch is about to start
C5_Witness ==
    /\ pc = "exec"
    /\ last.raised
    /\ last.agent \in DOMAIN reg
    /\ tq[last.task_id].status = "failed"

\* C6 as claimed: the status of a completed or failed task changes only by
\* the external reset (failed back to assigned); any other status update on
\* it is rejected and leaves the status unchanged.
C6_Original ==
    [][\A i \in 1..Len(tq) :
          (tq[i].status \in Terminal /\ tq'[i].status # tq[i].status)
             => /\ tq[i].status = "failed"
                /\ tq'[i] = ResetRow(tq[i])]_vars

\* C6 amended: once a task's status is completed or failed, no call made by
\* the dispatch loop changes its status; update_task_status itself rejects
\* nothing, so a status change of a terminal task is the work of a caller
\* outside the loop (the external reset or a second status update).
C6_LoopKeepsTerminal ==
    [][\A i \in 1..Len(tq) :
          (tq[i].status \in Terminal /\ tq'[i].status # tq[i].status)
             => ~LoopStep]_vars

\* a task is terminal and the loop has since started another task
C6_Witness ==
    \E i, j \in 1..Len(tq) :
        /\ i # j
        /\ tq[i].status \in Terminal
        /\ tq[i].completed_at # NoTime
        /\ tq[j].started_at >= tq[i].completed_at

\* C7: when the routed worker raises, the execution leaves the task failed
\* with error_log equal to the raised message and the worker's registration
\* idle; and no step of the loop moves a failed task to another status
\* (no automatic retry).
C7_WorkerRaises ==
    [][/\ (FinishStep /\ last'.raised) =>
            /\ tq'[last'.task_id].status = "failed"
            /\ tq'[last'.task_id].error_log = last'.error
            /\ last'.error # NoError
            /\ last'.agent \in DOMAIN reg =>
                  reg'[last'.agent] = [status |-> "idle", current_task_id |-> NoTask]
            /\ \A k \in 1..Len(batch') : batch'[k].task_id # last'.task_id
       /\ \A i \in 1..Len(tq) :
            (tq[i].status = "failed" /\ LoopStep) => tq'[i].status = "failed"]_vars

\* a routed worker raised, the task is failed, and the loop has gone on to
\* a later poll cycle
C7_Witness ==
    /\ pc = "poll"
    /\ last.raised
    /\ last.agent \in KnownAgents
    /\ tq[last.task_id].status = "failed"
    /\ tq[last.task_id].error_log = last.error

\* C8: a task's status becomes completed only in the step that ends an
\* execution of that task whose worker returned without raising; an execution
\* in which routing or the worker raised never leaves the task completed.
C8_CompletedOnlyAfterReturn ==
    [][/\ \A i \in 1..Len(tq') :
            (tq'[i].status = "completed" /\ (i > Len(tq) \/ tq[i].status # "completed"))
               => /\ FinishStep
                  /\ Head(batch).task_id = i
                  /\ last'.task_id = i
                  /\ ~last'.raised
       /\ (FinishStep /\ last'.raised) => tq'[last'.task_id].status # "completed"]_vars

\* one task is completed after its worker returned, another one is not
\* completed after its worker raised
C8_Witness ==
    /\ last.task_id # NoTask
    /\ ~last.raised
    /\ tq[last.task_id].status = "completed"
    /\ \E i \in 1..Len(tq) : tq[i].status = "failed" /\ tq[i].error_log # NoError

\* C9: a task that is assigned with a null assigned_to_agent is never taken
\* into a batch, and no step of the loop changes it.
C9_NullWorkerSkipped ==
    [][LoopStep =>
         /\ \A k \in 1..Len(batch') : batch'[k].assigned_to_agent # Null
         /\ \A i \in 1..Len(tq) :
               (tq[i].status = "assigned" /\ tq[i].assigned_to_agent = Null)
                  => tq'[i] = tq[i]]_vars

\* C10: every task of a fetched batch had status assigned in the table when
\* it was fetched; a step of the loop changes no task other than the one it
\* is executing, which was fetched as assigned; a pending task is never
\* changed by the loop.
C10_OnlyAssignedFetched ==
    [][LoopStep =>
         /\ pc = "poll" => \A k \in 1..Len(batch') :
                              /\ batch'[k].status = "assigned"
                              /\ tq[batch'[k].task_id].status = "assigned"
         /\ \A i \in 1..Len(tq) :
               tq'[i] # tq[i] => /\ pc \in {"exec", "worker"}
                                 /\ Head(batch).task_id = i
                                 /\ Head(batch).status = "assigned"
         /\ \A i \in 1..Len(tq) :
               tq[i].status = "pending" => tq'[i] = tq[i]]_vars

\* a pending task has stayed pending while the loop executed a task that
\* was submitted after it
C10_Witness ==
    \E i \in 1..Len(tq) :
        /\ tq[i].status = "pending"
        /\ last.task_id > i
        /\ tq[last.task_id].status \in Terminal

\* C11: no task inserted by delegation is assigned to the coordinator
\* (SOLACE) itself, whatever delegate_to the answer carries.
C11_DelegatesAway ==
    \A j \in 1..Len(tq) :
        tq[j].delegated_from # NoTask => tq[j].assigned_to_agent # "SOLACE"

\* C12: an execution in which routing or the worker raised ends with the
\* loop alive and at the next task of the batch (or asleep when the batch
\* is done); every task of a batch is started in its turn; the sleep is
\* followed by the next poll.
C12_FailureContained ==
    [][/\ (FinishStep /\ last'.raised) =>
            /\ batch' = Tail(batch)
            /\ pc' = IF Tail(batch) # <<>> THEN "exec" ELSE "sleep"
       /\ (pc = "exec" /\ LoopStep) =>
            /\ pc' = "worker"
            /\ batch' = batch
            /\ tq'[Head(batch).task_id].status = "in_progress"
       /\ (pc = "sleep" /\ LoopStep) => pc' = "poll"
       /\ pc' # "exited"]_vars

\* the worker of the first task of a batch raised, and the task behind it in
\* the same batch (submitted earlier, lower priority) is being executed
C12_Witness ==
    /\ pc = "worker"
    /\ last.raised
    /\ tq[last.task_id].status = "failed"
    /\ Head(batch).task_id < last.task_id
    /\ tq[Head(batch).task_id].status = "in_progress"

\* C13: no store failure, loss of the connection in the middle of a batch
\* included, ends the dispatch loop.
C13_LoopSurvives == pc # "exited"

\* C14: the worker of a task is invoked only if the task was marked
\* in_progress (a failed mark_in_progress abandons the task).
C14_NoWorkerWithoutMark ==
    [][(pc = "exec" /\ pc' = "worker")
          => tq'[Head(batch).task_id].status = "in_progress"]_vars

\* C15: a poll cycle in which the store does not fail the fetch query
\* fetches the claimable tasks, also after an earlier cycle's query failed.
C15_FetchRecovers ==
    [][(pc = "poll" /\ LoopStep /\ faults' = faults /\ conn' # "closed"
        /\ Claimable(tq) # {})
          => /\ batch' # <<>>
             /\ pc' = "exec"]_vars

\* C16: in every state a completed task has a result and no error_log, a
\* failed task an error_log and no result, and a task in any other status
\* neither (external resets and re-executions included).
C16_ResultXorError ==
    \A i \in 1..Len(tq) :
        /\ tq[i].status = "completed" =>
              tq[i].result # NoResult /\ tq[i].error_log = NoError
        /\ tq[i].status = "failed" =>
              tq[i].result = NoResult /\ tq[i].error_log # NoError
        /\ tq[i].status \notin Terminal =>
              tq[i].result = NoResult /\ tq[i].error_log = NoError

\* C17: a step raises a task's retry_count by exactly 1 when it takes the
\* task into failed and leaves it unchanged otherwise (in_progress and
\* completed updates, external reset); a new task starts at 0.
C17_RetryCount ==
    [][\A i \in 1..Len(tq') :
          IF i > Len(tq) THEN tq'[i].retry_count = 0
          ELSE tq'[i].retry_count =
                  IF tq[i].status # "failed" /\ tq'[i].status = "failed"
                  THEN tq[i].retry_count + 1 ELSE tq[i].retry_count]_vars

\* a task has failed, been reset and failed again
C17_Witness ==
    \E i \in 1..Len(tq) : tq[i].retry_count = 2 /\ tq[i].status = "failed"

\* C18: a timestamp that is set never changes again, and started_at <=
\* completed_at whenever both are set.
C18_TimestampsOnce ==
    [][\A i \in 1..Len(tq) :
          /\ tq[i].started_at # NoTime => tq'[i].started_at = tq[i].started_at
          /\ tq[i].completed_at # NoTime => tq'[i].completed_at = tq[i].completed_at
          /\ (tq'[i].started_at # NoTime /\ tq'[i].completed_at # NoTime)
                => tq'[i].started_at <= tq'[i].completed_at]_vars

\* C19: no step of the loop sets an existing task to assigned; a failed
\* task leaves failed only by the external reset, which makes it assigned;
\* outside the loop no task that is not failed is changed.
C19_NoRequeue ==
    [][\A i \in 1..Len(tq) :
          /\ (LoopStep /\ tq'[i].status = "assigned") => tq[i].status = "assigned"
          /\ (tq[i].status = "failed" /\ tq'[i].status # "failed")
                => /\ ~LoopStep
                   /\ tq'[i] = ResetRow(tq[i])
                   /\ tq'[i].status = "assigned"
          /\ (tq[i].status # "failed" /\ ~LoopStep) => tq'[i] = tq[i]]_vars

\* a failed task has been reset and waits as assigned, next to a completed
\* task that no reset has moved
C19_Witness ==
    \E i, j \in 1..Len(tq) :
        /\ tq[i].status = "assigned"
        /\ tq[i].retry_count = 1
        /\ tq[j].status = "completed"
        /\ resets > 0

\* C20: the execution of a task whose worker identifier is not a known
\* worker invokes no worker, ends with the task failed and an error_log that
\* names the identifier, and leaves the loop at the next task.
C20_UnknownAgent ==
    [][(FinishStep /\ Head(batch).assigned_to_agent \notin KnownAgents) =>
          LET task == Head(batch) IN
          /\ last'.raised
          /\ last'.result = NoResult
          /\ tq'[task.task_id].status = "failed"
          /\ tq'[task.task_id].error_log =
                [msg |-> "Unknown agent", arg |-> task.assigned_to_agent]
          /\ tq'[task.task_id].result = NoResult
          /\ batch' = Tail(batch)
          /\ pc' = IF Tail(batch) # <<>> THEN "exec" ELSE "sleep"]_vars

\* a task delegated to a name that is no worker has failed on routing
C20_Witness ==
    \E i \in 1..Len(tq) :
        /\ tq[i].assigned_to_agent = "ORACLE"
        /\ tq[i].status = "failed"
        /\ tq[i].error_log = [msg |-> "Unknown agent", arg |-> "ORACLE"]

\* the answers after which a worker raises
FailingResponse(agent, k) ==
    \/ k \in {"transport_error", "http_status"}
    \/ k = "not_json" /\ agent \in {"ARCHITECT", "SENTINEL"}
    \/ k = "not_object" /\ agent = "SOLACE"
    \/ k = "wrong_shape" /\ agent = "FORGE"

StoreAndOpenAIKeys == {"OPENAI_API_KEY", "DB_HOST", "DB_PORT", "DB_NAME", "DB_USER",
                       "DB_PASSWORD"}

\* C22: a process launched with the store credentials and the OpenAI
\* credential set is not ended by the checks of the environment, whether or
\* not the credential of another worker (the Claude key of FORGE) is set.
C22_WorkerKeyOptional ==
    StoreAndOpenAIKeys \subseteq proc.env => proc.why \notin {"import", "validate"}

StartupPositions == {"import", "main", "init", "connect"}

\* C23: the process ends with code 1 when a check of the environment fails
\* or the initial connection to the store fails, and with code 0 when the
\* stop signal ends it; it never ends with code 0 before run() has its
\* connection unless the stop signal ended it, and a process launched without
\* a required key never gets past the import.
C23_ExitCodes ==
    [][/\ (pc # "exited" /\ pc' = "exited") =>
            /\ proc'.exit_code \in {0, 1}
            /\ proc'.why = "signal" => proc'.exit_code = 0
            /\ (pc \in StartupPositions /\ proc'.why # "signal") => proc'.exit_code = 1
            /\ (pc = "import" /\ ~(RequiredKeys \subseteq proc.env)) => proc'.exit_code = 1
            /\ (pc = "connect" /\ conn' = "closed" /\ proc'.why # "signal")
                  => proc'.exit_code = 1
       /\ ~(RequiredKeys \subseteq proc'.env) => pc' \in {"import", "exited"}
       /\ pc = "exited" => proc'.exit_code = proc.exit_code]_vars

\* the process was launched with every key, the initial connection failed,
\* and the process has ended
C23_Witness ==
    /\ pc = "exited"
    /\ proc.env = EnvKeys
    /\ proc.why = "connect"
    /\ proc.exit_code = 1
\* C24: the step that ends an execution appends exactly one entry to the
\* history, for the executed task and its worker, whose success flag is true
\* exactly when the task is left completed and false, with the task's error
\* message, exactly when it is left failed; no other step changes the
\* history, and no step changes or removes an entry already there.
C24_HistoryAppendOnly ==
    [][IF FinishStep
       THEN /\ Len(hist') = Len(hist) + 1
            /\ SubSeq(hist', 1, Len(hist)) = hist
            /\ LET e == hist'[Len(hist')]
                    row == tq'[last'.task_id]
               IN  /\ e.task_id = last'.task_id
                   /\ e.task_id = Head(batch).task_id
                   /\ e.agent_name = Head(batch).assigned_to_agent
                   /\ e.success = (row.status = "completed")
                   /\ (~e.success) = (row.status = "failed")
                   /\ e.success = ~last'.raised
                   /\ ~e.success => e.error_message = row.error_log
                   /\ e.success => e.error_message = NoError
       ELSE hist' = hist]_vars

\* a task was executed twice (failed, reset from outside, executed again)
\* and the history holds one entry for each execution
C24_Witness ==
    /\ Len(hist) = 2
    /\ hist[1].task_id = hist[2].task_id
    /\ ~hist[1].success
    /\ hist[2].success
    /\ tq[hist[2].task_id].status = "completed"
InProgress == {i \in 1..Len(tq) : tq[i].status = "in_progress"}
Busy == {a \in DOMAIN reg : reg[a].status = "busy"}
Logged(i) == \E k \in 1..Len(hist) : hist[k].task_id = i

\* C25: at most one task is in progress and at most one registration is
\* busy.  While no worker is running none is; while a worker is running they
\* are the task at the head of the batch and its worker, and every other
\* task that was ever started has had its final status update and its history
\* entry written, so a task is marked in_progress only after the execution
\* before it has been closed.
C25_Sequential ==
    /\ Cardinality(InProgress) <= 1
    /\ Cardinality(Busy) <= 1
    /\ pc # "worker" =>
          /\ InProgress = {}
          /\ Busy = {}
          /\ \A i \in 1..Len(tq) : tq[i].started_at # NoTime => Logged(i)
    /\ pc = "worker" =>
          /\ InProgress = {Head(batch).task_id}
          /\ Busy \subseteq {Head(batch).assigned_to_agent}
          /\ \A a \in Busy : reg[a].current_task_id = Head(batch).task_id
          /\ \A i \in 1..Len(tq) :
                (tq[i].started_at # NoTime /\ i # Head(batch).task_id) =>
                   /\ tq[i].status \in {"completed", "failed", "assigned"}
                   /\ tq[i].completed_at # NoTime
                   /\ Logged(i)

\* a second task is being executed after the first one was closed
C25_Witness ==
    /\ pc = "worker"
    /\ Len(hist) = 1
    /\ hist[1].task_id # Head(batch).task_id
    /\ Busy = {Head(batch).assigned_to_agent}
    /\ InProgress = {Head(batch).task_id}
\* C26: the loop executes the tasks of a batch in the order of the fetched
\* list: the task it marks in_progress is the head of the list, every task
\* behind it is still waiting as assigned, the step that ends the execution
\* is for that head and leaves the tasks behind it, in their order, and the
\* loop goes to sleep only when none is left; between those steps the list
\* does not change.
C26_FetchOrderExecuted ==
    [][/\ (pc = "exec" /\ pc' = "worker") =>
            /\ InProgress' = {Head(batch).task_id}
            /\ batch' = batch
            /\ \A k \in 2..Len(batch) : tq'[batch[k].task_id].status = "assigned"
       /\ FinishStep =>
            /\ last'.task_id = Head(batch).task_id
            /\ tq'[Head(batch).task_id].status \in Terminal
            /\ batch' = Tail(batch)
            /\ (pc' = "sleep") = (batch' = <<>>)
            /\ (pc' = "exec") = (batch' # <<>>)
       /\ (pc \in {"exec", "worker"} /\ ~FinishStep) => batch' = batch]_vars

\* the task inserted first is executed second, behind a task of higher
\* priority fetched in the same batch
C26_Witness ==
    /\ pc = "worker"
    /\ Len(tq) = 2
    /\ Len(batch) = 1
    /\ Head(batch).task_id = 1
    /\ tq[1].status = "in_progress"
    /\ tq[1].priority < tq[2].priority
    /\ tq[2].status \in Terminal
    /\ tq[2].started_at # NoTime
    /\ tq[2].started_at < tq[1].started_at
    /\ Len(hist) = 1
Definition(row) ==
    <<row.task_type, row.description, row.priority, row.created_at>>

\* C27: no step of the loop changes the assigned worker, the priority, the
\* creation time, the kind or the description of a task already in the
\* queue; the worker of a task changes only in an external reset of a failed
\* task, and the other four never change.
C27_DefinitionKept ==
    [][\A i \in 1..Len(tq) :
          /\ i <= Len(tq')
          /\ Definition(tq'[i]) = Definition(tq[i])
          /\ LoopStep => tq'[i].assigned_to_agent = tq[i].assigned_to_agent
          /\ tq'[i].assigned_to_agent # tq[i].assigned_to_agent =>
                /\ resets' = resets + 1
                /\ tq[i].status = "failed"
                /\ tq'[i].assigned_to_agent = "FORGE"]_vars

\* a task executed by SOLACE, reset from outside and executed again by FORGE
\* keeps its definition, and the loop has closed it twice
C27_Witness ==
    \E i \in 1..Len(tq) :
       /\ tq[i].status = "completed"
       /\ tq[i].assigned_to_agent = "FORGE"
       /\ tq[i].retry_count = 1
       /\ Definition(tq[i]) = <<"feature_implementation", "d1", 8, i>>
       /\ \E k \in 1..Len(hist) : hist[k].task_id = i /\ hist[k].agent_name = "SOLACE"
\* C28: after update_agent_status(worker, 'busy', task_id) has committed, at
\* the start of an execution, the registry holds a row for that worker with
\* that state and that task, whether or not it held one before.
C28_Upsert ==
    [][(pc = "exec" /\ pc' = "worker" /\ Head(batch).assigned_to_agent # Null) =>
          /\ Head(batch).assigned_to_agent \in DOMAIN reg'
          /\ reg'[Head(batch).assigned_to_agent] =
                [status |-> "busy", current_task_id |-> Head(batch).task_id]]_vars
\* C30: the batch is fixed when it is fetched: only the fetch puts tasks in
\* it, a task inserted while it is processed (by delegation or by a producer)
\* is not in it, every task the loop starts is in it, and the next fetch
\* comes only after the sleep.
C30_BatchFixedAtFetch ==
    [][/\ pc # "poll" =>
            /\ BatchIds' \subseteq BatchIds
            /\ \A i \in (Len(tq) + 1)..Len(tq') : i \notin BatchIds'
       /\ \A i \in 1..Len(tq) :
            (tq[i].status # "in_progress" /\ tq'[i].status = "in_progress") =>
               i \in BatchIds
       /\ (pc # "poll" /\ pc' = "poll") => (pc = "sleep" /\ batch = <<>>)]_vars

\* the loop has executed a task of priority 5 and gone to sleep while a task
\* of priority 8, inserted after the fetch, waits for the next one
C30_Witness ==
    /\ pc = "sleep"
    /\ Len(tq) = 2
    /\ last.task_id = 1
    /\ tq[1].priority = 5
    /\ tq[1].status \in Terminal
    /\ tq[2].priority = 8
    /\ tq[2].status = "assigned"
    /\ tq[2].assigned_to_agent = "SOLACE"
    /\ tq[2].started_at = NoTime
    /\ Len(hist) = 1
Finals == SelectSeq(ws.sent, LAMBDA fr : fr.type # "status")

\* C29: on a connection, the frames sent that are not 'status' frames are
\* one for each message received, in the order of the messages - none yet
\* for the message being handled, and none for a message cut short by the
\* peer closing the connection.  That frame is the typed reply of the
\* message's type or an 'error' frame, and an 'error' frame only for invalid
\* JSON, JSON that is not an object, an unknown type, a missing field or an
\* exception of the handler.  'status' frames are sent for chat messages
\* only, before the chat_response of the same message, and a message that
\* is being handled on an open connection can always be answered.
C29_OneFinalResponse ==
    /\ Len(Finals) = Len(ws.received) - (IF ws.pos = "handling" THEN 1 ELSE 0)
    /\ \A k \in 1..Len(Finals) :
          LET m == ws.received[k] IN
          /\ Finals[k].for = k
          /\ Finals[k].type \in {"error"} \cup
                (IF m.type \in MessageTypes THEN {TypedReply(m.type)} ELSE {})
          /\ Finals[k].type = "error" =>
                \/ m.json # "object"
                \/ m.type \notin MessageTypes
                \/ m.data # "ok"
          /\ (m.json = "object" /\ m.type \in MessageTypes /\ m.data = "ok")
                => Finals[k].type = TypedReply(m.type)
    /\ \A j \in 1..Len(ws.sent) :
          /\ j > 1 => ws.sent[j - 1].for <= ws.sent[j].for
          /\ ws.sent[j].type = "status" =>
                /\ ws.received[ws.sent[j].for].type = "chat"
                /\ \A i \in 1..(j - 1) :
                      ws.sent[i].for = ws.sent[j].for => ws.sent[i].type = "status"
                /\ \A i \in (j + 1)..Len(ws.sent) :
                      ws.sent[i].for = ws.sent[j].for =>
                         ws.sent[i].type \in {"status", "chat_response"}
    /\ (ws.open /\ ws.pos = "handling") => ENABLED (WsReply \/ WsChatRound)
    /\ (~ws.open \/ ws.pos = "idle") => ~ENABLED (WsReply \/ WsChatRound)

\* a chat answered after status frames, then a message of an unknown type
\* answered with an error frame
C29_Witness ==
    /\ ws.pos = "idle"
    /\ Len(ws.received) = 2
    /\ ws.received[1].type = "chat"
    /\ ws.received[2].type = "bogus"
    /\ Len(ws.sent) > 2
    /\ ws.sent[1].type = "status"
    /\ ws.sent[Len(ws.sent) - 1] = [type |-> "chat_response", for |-> 1]
    /\ ws.sent[Len(ws.sent)] = [type |-> "error", for |-> 2]
StatusOf(i) == IF i <= Len(tq) THEN tq[i].status ELSE "none"

\* C31: while the loop keeps running, a task that is in_progress eventually
\* is completed or failed, store errors in the delegation INSERT or in the
\* final status update included.
C31_InProgressEnds ==
    \A i \in 1..MaxTasks :
       (StatusOf(i) = "in_progress") ~> (StatusOf(i) \in Terminal \/ pc = "exited")
\* C32: when the worker returned without raising, the step that ends the
\* execution neither marks the task failed nor writes a history entry with
\* success = false, whatever the store does to the loop's own statements.
C32_FailedOnlyIfRaised ==
    [][(FinishStep /\ ~last'.raised) =>
          /\ tq'[last'.task_id].status # "failed"
          /\ \A k \in (Len(hist) + 1)..Len(hist') : hist'[k].success]_vars
\* the executions of task i that have ended (each wrote its history entry)
Executions(i) == {k \in 1..Len(hist) : hist[k].task_id = i}

\* C33: the loop calls a worker for a task that it has executed before only
\* if the task was reset from outside in between: at the call, the task has
\* no more executions behind it than resets were made.
C33_InvokedOnce ==
    [][(pc = "exec" /\ pc' = "worker" /\ Head(batch).assigned_to_agent \in KnownAgents) =>
          Cardinality(Executions(Head(batch).task_id)) <= resets]_vars
\* C34: no task created by delegation produces a delegated task itself:
\* the task a delegated task was delegated from is a task of a producer.
C34_OneFollowOn ==
    \A j \in 1..Len(tq) :
        tq[j].delegated_from # NoTask => tq[tq[j].delegated_from].delegated_from = NoTask
\* a task in_progress that the running process, if any, is not executing
Orphaned(i) ==
    /\ tq[i].status = "in_progress"
    /\ pc # "worker" \/ Head(batch).task_id # i

\* C35: the stop signal during a worker call leaves the task in_progress and
\* its worker's registration busy with it.  From then on, restarts
\* included, no step changes the task's row or fetches the task, and the
\* registration changes only when the loop executes another task of that
\* worker.
C35_NoRecovery ==
    [][/\ (pc = "worker" /\ pc' = "exited") =>
            /\ tq' = tq
            /\ reg' = reg
            /\ tq[Head(batch).task_id].status = "in_progress"
            /\ Head(batch).assigned_to_agent \in DOMAIN reg =>
                  reg[Head(batch).assigned_to_agent] =
                     [status |-> "busy", current_task_id |-> Head(batch).task_id]
       /\ \A i \in 1..Len(tq) : Orphaned(i) =>
            /\ tq'[i] = tq[i]
            /\ i \notin BatchIds'
            /\ \A a \in DOMAIN reg :
                  (reg[a].current_task_id = i /\ reg'[a] # reg[a]) =>
                     /\ pc \in {"exec", "worker"}
                     /\ Head(batch).task_id # i
                     /\ Head(batch).assigned_to_agent = a]_vars

\* the process was stopped during the call for task 1 and started again;
\* the new loop has executed task 2 and sleeps, task 1 is still in_progress
\* and its worker still busy with it
C35_Witness ==
    /\ pc = "sleep"
    /\ Len(tq) = 2
    /\ Orphaned(1)
    /\ tq[1].assigned_to_agent = "SOLACE"
    /\ reg["SOLACE"] = [status |-> "busy", current_task_id |-> 1]
    /\ tq[2].status \in Terminal
    /\ last.task_id = 2
\* C36: handle_chat_message makes at most 5 model calls for a chat message
\* and returns: the model's text after a call without tool calls, the
\* 'Maximum iterations reached' text after 5 rounds of tool calls and no
\* further call, or an 'Error: ...' text after a call that raised.  A chat
\* being handled on an open connection can always take its next step, and
\* every chat handled to its end has its chat_response.
C36_ChatTerminates ==
    /\ ws.calls <= max_iterations
    /\ ws.rounds <= max_iterations
    /\ ws.rounds <= ws.calls
    /\ ws.returned = "final_text" => ws.calls = ws.rounds + 1
    /\ ws.returned = "max_iterations" =>
          (ws.rounds = max_iterations /\ ws.calls = max_iterations)
    /\ ws.returned = "error" => ws.calls = ws.rounds + 1
    /\ ws.returned # Null =>
          /\ ws.pos = "idle"
          /\ IsChat(ws.received[Len(ws.received)])
          /\ ws.sent[Len(ws.sent)] = [type |-> "chat_response", for |-> Len(ws.received)]
    /\ (ws.open /\ ws.pos = "handling" /\ IsChat(ws.received[Len(ws.received)]))
          => ENABLED WsChatRound
    /\ \A k \in 1..Len(Finals) :
          IsChat(ws.received[k]) => Finals[k].type = "chat_response"

\* a chat that used up its five rounds of tool calls and was answered with
\* the 'Maximum iterations reached' text
C36_Witness ==
    /\ ws.returned = "max_iterations"
    /\ ws.calls = 5
    /\ Len(ws.sent) >= 6
    /\ ws.sent[Len(ws.sent)].type = "chat_response"

\* C37: format_template leaves the module-level TEMPLATES as the module's
\* load made it, whatever keyword arguments it is called with: a call with a
\* context override changes the returned template only, so that a call
\* without a context returns the context the template was defined with; a
\* call with an unknown name raises ValueError and returns nothing.
C37_TemplatesUnchanged ==
    /\ templates.TEMPLATES = TEMPLATES
    /\ (templates.call.outcome = "returned"
        /\ "context" \notin templates.call.keywords)
          => templates.call.template.context =
                TEMPLATES[templates.call.template_name].context
    /\ templates.call.template_name \notin DOMAIN TEMPLATES \cup {Null}
          => templates.call.outcome = "ValueError"
====
